---- MODULE Spec2Model ----
(***************************************************************************)
(* Model of the constraint subsystem of find-my-way: the Constrainer      *)
(* (lib/constrainer.js) with its strategy registry, the compiled          *)
(* deriveConstraints and mustMatchHandlerMatcher functions, and           *)
(* validateConstraints.  A compiled function is modelled by the list of   *)
(* statements the builder emits; running it interprets that list.         *)
(***************************************************************************)
EXTENDS Integers, Sequences, FiniteSets, TLC

\* ---- bounds of the model -------------------------------------------------
MaxCustom == 2
MaxConstraints == 2

\* ---- JavaScript values ---------------------------------------------------
\* the value of an absent property / an absent header
UNDEF == "<undefined>"
\* a function-valued property (its behaviour is modelled where it is called)
FN == "<function>"

HeaderNames == {"accept-version", "host"}
\* absent, the empty string (defined but falsy) and a non-empty string
HeaderValues == {UNDEF, "", "1.x"}
Requests == [HeaderNames -> HeaderValues]

\* constraint keys used by routes, requests' derived constraints and markUsed;
\* "region" is a registered strategy only when a custom strategy supplies it
KeyNames == {"version", "host", "region"}
ConstraintValues == {"1.2.0", "not-a-semver-range"}
Handlers == {"defaultHandler"}

Truthy(v) == v \notin {UNDEF, ""}

Range(s) == {s[i] : i \in 1..Len(s)}

\* ---- strategies ----------------------------------------------------------
\* deriveConstraint holds the header the function reads, or UNDEF when the
\* property is missing; validate = TRUE is a validator that throws on
\* "not-a-semver-range".
acceptVersionStrategy ==
  [name |-> "version", storage |-> FN, deriveConstraint |-> "accept-version",
   validate |-> FALSE, mustMatchWhenDerived |-> FALSE, isCustom |-> FALSE]

acceptHostStrategy ==
  [name |-> "host", storage |-> FN, deriveConstraint |-> "host",
   validate |-> FALSE, mustMatchWhenDerived |-> FALSE, isCustom |-> FALSE]

\* custom strategy objects a caller may hand to the constructor: a region
\* strategy in two variants, a replacement of the built-in version strategy,
\* and four objects that each miss one required property
CustomPool ==
  { [name |-> "region", storage |-> FN, deriveConstraint |-> "host",
     validate |-> TRUE, mustMatchWhenDerived |-> TRUE, isCustom |-> FALSE],
    [name |-> "region", storage |-> FN, deriveConstraint |-> "accept-version",
     validate |-> FALSE, mustMatchWhenDerived |-> FALSE, isCustom |-> FALSE],
    [name |-> "version", storage |-> FN, deriveConstraint |-> "accept-version",
     validate |-> TRUE, mustMatchWhenDerived |-> TRUE, isCustom |-> FALSE],
    [name |-> UNDEF, storage |-> FN, deriveConstraint |-> "host",
     validate |-> FALSE, mustMatchWhenDerived |-> FALSE, isCustom |-> FALSE],
    [name |-> "", storage |-> FN, deriveConstraint |-> "host",
     validate |-> FALSE, mustMatchWhenDerived |-> FALSE, isCustom |-> FALSE],
    [name |-> "region", storage |-> UNDEF, deriveConstraint |-> "host",
     validate |-> FALSE, mustMatchWhenDerived |-> TRUE, isCustom |-> FALSE],
    [name |-> "region", storage |-> FN, deriveConstraint |-> UNDEF,
     validate |-> TRUE, mustMatchWhenDerived |-> FALSE, isCustom |-> FALSE] }

RECURSIVE SeqsUpTo(_, _)
SeqsUpTo(S, n) ==
  IF n = 0 THEN {<<>>}
  ELSE LET shorter == SeqsUpTo(S, n - 1)
       IN shorter \cup {Append(s, x) : s \in {t \in shorter : Len(t) = n - 1}, x \in S}

CustomCollections == SeqsUpTo(CustomPool, MaxCustom)

\* ---- objects as insertion-ordered maps -----------------------------------
\* availableStrategies is a sequence of strategies, each stored under its name
HasKey(avail, key) == \E i \in 1..Len(avail) : avail[i].name = key

Get(avail, key) == avail[CHOOSE i \in 1..Len(avail) : avail[i].name = key]

PutKeepExisting(avail, strategy) ==
  IF HasKey(avail, strategy.name) THEN avail ELSE Append(avail, strategy)

\* this.availableStrategies[strategy.name] = strategy
Put(avail, strategy) ==
  IF HasKey(avail, strategy.name)
  THEN [i \in 1..Len(avail) |->
          IF avail[i].name = strategy.name THEN strategy ELSE avail[i]]
  ELSE Append(avail, strategy)

\* the three assertions of the constructor
WellFormed(strategy) ==
  /\ strategy.name # UNDEF /\ strategy.name # ""
  /\ strategy.storage = FN
  /\ strategy.deriveConstraint # UNDEF

RECURSIVE RegisterCustomStrategies(_, _, _)
RegisterCustomStrategies(avail, customs, i) ==
  IF i > Len(customs) THEN [threw |-> FALSE, avail |-> avail]
  ELSE IF ~WellFormed(customs[i]) THEN [threw |-> TRUE, avail |-> avail]
  ELSE RegisterCustomStrategies(
         Put(avail, [customs[i] EXCEPT !.isCustom = TRUE]), customs, i + 1)

BuiltinStrategies == <<acceptVersionStrategy, acceptHostStrategy>>

\* ---- the compiled Deriver ------------------------------------------------
\* const defaultConstraints = { version: ..., host: ... }
DefaultConstraints(key) ==
  IF key = "version" THEN "accept-version"
  ELSE IF key = "host" THEN "host"
  ELSE UNDEF

\* the block of statements pushed for one used strategy
DeriveStatement(avail, key) ==
  LET strategy == Get(avail, key)
  IN IF strategy.isCustom
     THEN [custom |-> TRUE, key |-> key, name |-> strategy.name, header |-> UNDEF]
     ELSE [custom |-> FALSE, key |-> key, name |-> strategy.name,
           header |-> DefaultConstraints(key)]

BuildDeriveConstraintsAllAvailable(used, avail) ==
  [threw |-> FALSE,
   fn |-> [i \in 1..Len(avail) |-> DeriveStatement(avail, avail[i].name)]]

BuildDeriveConstraintsLastOnly(used, avail) ==
  IF \E i \in 1..Len(used) : ~HasKey(avail, used[i])
  THEN [threw |-> TRUE, fn |-> <<>>]
  ELSE [threw |-> FALSE,
        fn |-> IF used = <<>> THEN <<>>
               ELSE <<DeriveStatement(avail, used[Len(used)])>>]

\* _buildDeriveConstraints: an empty statement list is the body 'return null';
\* reading .isCustom of a strategy that is not registered throws a TypeError
BuildDeriveConstraints(used, avail) ==
  IF \E i \in 1..Len(used) : ~HasKey(avail, used[i])
  THEN [threw |-> TRUE, fn |-> <<>>]
  ELSE [threw |-> FALSE,
        fn |-> [i \in 1..Len(used) |-> DeriveStatement(avail, used[i])]]

EmptyMap == [k \in KeyNames |-> UNDEF]
NullDerived == [isNull |-> TRUE, map |-> EmptyMap]

\* the value one statement computes: a custom strategy's deriveConstraint is
\* looked up and called at run time, a built-in's header read is inlined
StatementValue(stmt, avail, req) ==
  IF stmt.custom THEN req[Get(avail, stmt.key).deriveConstraint]
  ELSE req[stmt.header]

RECURSIVE RunStatements(_, _, _, _, _)
RunStatements(fn, avail, req, i, acc) ==
  IF i > Len(fn) THEN acc
  ELSE LET value == StatementValue(fn[i], avail, req)
           called == IF fn[i].custom THEN Append(acc.invoked, fn[i].key)
                     ELSE acc.invoked
       IN RunStatements(fn, avail, req, i + 1,
            IF Truthy(value)
            THEN [hasConstraint |-> TRUE,
                  derivedConstraints |-> [acc.derivedConstraints EXCEPT ![fn[i].name] = value],
                  invoked |-> called]
            ELSE [acc EXCEPT !.invoked = called])

\* calling this.deriveConstraints(req, ctx)
RunDeriveConstraints(fn, avail, req) ==
  IF fn = <<>> THEN [derived |-> NullDerived, invoked |-> <<>>]
  ELSE LET r == RunStatements(fn, avail, req, 1,
                  [hasConstraint |-> FALSE, derivedConstraints |-> EmptyMap,
                   invoked |-> <<>>])
       IN [derived |-> IF r.hasConstraint
                       THEN [isNull |-> FALSE, map |-> r.derivedConstraints]
                       ELSE NullDerived,
           invoked |-> r.invoked]

\* ---- the compiled Matcher ------------------------------------------------
NULL == "<null>"

BuildMustMatchHandlerMatcherUsedOnly(avail, used) ==
  SelectSeq([i \in 1..Len(avail) |-> avail[i].name],
            LAMBDA key : Get(avail, key).mustMatchWhenDerived /\ key \in Range(used))

\* _buildMustMatchHandlerMatcher: one 'if (typeof derivedConstraints.key !==
\* "undefined") return null' per flagged available strategy
BuildMustMatchHandlerMatcher(avail, used) ==
  SelectSeq([i \in 1..Len(avail) |-> avail[i].name],
            LAMBDA key : Get(avail, key).mustMatchWhenDerived)

\* calling node.mustMatchHandlerMatcher(derivedConstraints), handlers[0] = handler
RunMustMatchHandlerMatcher(fn, derivedConstraints, handler) ==
  IF \E i \in 1..Len(fn) : derivedConstraints[fn[i]] # UNDEF THEN NULL ELSE handler

\* ---- validateConstraints -------------------------------------------------
\* a constraints object: its (key, value) properties in enumeration order
ConstraintPairs == [key : KeyNames, value : ConstraintValues]

DistinctKeys(cons) == \A i, j \in 1..Len(cons) : cons[i].key = cons[j].key => i = j

ConstraintMaps == {c \in SeqsUpTo(ConstraintPairs, MaxConstraints) : DistinctKeys(c)}

\* strategy.validate(value) of a strategy that has one
ValidateThrows(value) == value = "not-a-semver-range"

RECURSIVE ValidateConstraintsSkipUnknown(_, _, _)
ValidateConstraintsSkipUnknown(avail, cons, i) ==
  IF i > Len(cons) THEN "none"
  ELSE IF ~HasKey(avail, cons[i].key) THEN ValidateConstraintsSkipUnknown(avail, cons, i + 1)
  ELSE IF Get(avail, cons[i].key).validate /\ ValidateThrows(cons[i].value)
       THEN "ValidationError"
  ELSE ValidateConstraintsSkipUnknown(avail, cons, i + 1)

RECURSIVE ValidateConstraints(_, _, _)
ValidateConstraints(avail, cons, i) ==
  IF i > Len(cons) THEN "none"
  ELSE IF ~HasKey(avail, cons[i].key) THEN "UnknownStrategy"
  ELSE IF Get(avail, cons[i].key).validate /\ ValidateThrows(cons[i].value)
       THEN "ValidationError"
  ELSE ValidateConstraints(avail, cons, i + 1)

\* ---- addUsedStrategy -----------------------------------------------------
AddUsedStrategyAlwaysPush(used, strategyName) ==
  [pushed |-> TRUE, used |-> Append(used, strategyName)]

\* if (this.usedStrategies.indexOf(strategyName) === -1) push
AddUsedStrategyPush(used, strategyName) ==
  IF strategyName \notin Range(used)
  THEN [pushed |-> TRUE, used |-> Append(used, strategyName)]
  ELSE [pushed |-> FALSE, used |-> used]

\* ---- the Constrainer as a state machine -----------------------------------
VARIABLES
  pc,                      \* "new": before the constructor ran; "ready"; "failed"
  customStrategies,        \* the constructor's argument
  availableStrategies,     \* this.availableStrategies
  usedStrategies,          \* this.usedStrategies
  deriveConstraints,       \* this.deriveConstraints (compiled)
  mustMatchHandlerMatcher, \* this.mustMatchHandlerMatcher (compiled)
  compileCount,            \* number of compileFunctions() calls so far
  lastOp                   \* the last call made, its arguments and its outcome

vars == <<pc, customStrategies, availableStrategies, usedStrategies,
          deriveConstraints, mustMatchHandlerMatcher, compileCount, lastOp>>

NoReq == [h \in HeaderNames |-> UNDEF]

NoOp ==
  [op |-> "none", name |-> UNDEF, req |-> NoReq, constraints |-> <<>>,
   pushed |-> FALSE, derivedConstraints |-> EmptyMap, handler |-> UNDEF,
   derived |-> NullDerived, invoked |-> <<>>, result |-> UNDEF, error |-> "none"]

Init ==
  /\ pc = "new"
  /\ customStrategies \in CustomCollections
  /\ availableStrategies = <<>>
  /\ usedStrategies = <<>>
  /\ deriveConstraints = <<>>
  /\ mustMatchHandlerMatcher = <<>>
  /\ compileCount = 0
  /\ lastOp = NoOp

\* new Constrainer(customStrategies), all assertions passing
ConstructorOk ==
  /\ pc = "new"
  /\ LET r == RegisterCustomStrategies(BuiltinStrategies, customStrategies, 1)
     IN /\ ~r.threw
        /\ availableStrategies' = r.avail
        /\ usedStrategies' = <<>>
        /\ deriveConstraints' = BuildDeriveConstraints(<<>>, r.avail).fn
        /\ mustMatchHandlerMatcher' = BuildMustMatchHandlerMatcher(r.avail, <<>>)
  /\ compileCount' = compileCount + 1
  /\ pc' = "ready"
  /\ lastOp' = [NoOp EXCEPT !.op = "constructor"]
  /\ UNCHANGED customStrategies

\* new Constrainer(customStrategies), an assertion failing: no object results
ConstructorThrows ==
  /\ pc = "new"
  /\ LET r == RegisterCustomStrategies(BuiltinStrategies, customStrategies, 1)
     IN /\ r.threw
        /\ availableStrategies' = r.avail
  /\ pc' = "failed"
  /\ lastOp' = [NoOp EXCEPT !.op = "constructor", !.error = "InvalidStrategy"]
  /\ UNCHANGED <<customStrategies, usedStrategies, deriveConstraints,
                 mustMatchHandlerMatcher, compileCount>>

\* addUsedStrategy(strategyName), compileFunctions() included
AddUsedStrategy(strategyName) ==
  /\ pc = "ready"
  /\ LET r == AddUsedStrategyPush(usedStrategies, strategyName)
         d == BuildDeriveConstraints(r.used, availableStrategies)
     IN /\ usedStrategies' = r.used
        /\ compileCount' = IF r.pushed THEN compileCount + 1 ELSE compileCount
        /\ IF r.pushed /\ ~d.threw
           THEN /\ deriveConstraints' = d.fn
                /\ mustMatchHandlerMatcher' =
                     BuildMustMatchHandlerMatcher(availableStrategies, r.used)
           ELSE UNCHANGED <<deriveConstraints, mustMatchHandlerMatcher>>
        /\ lastOp' = [NoOp EXCEPT !.op = "addUsedStrategy", !.name = strategyName,
                        !.pushed = r.pushed,
                        !.error = IF r.pushed /\ d.threw THEN "TypeError" ELSE "none"]
  /\ UNCHANGED <<pc, customStrategies, availableStrategies>>

\* validateConstraints(constraints)
Validate(constraints) ==
  /\ pc = "ready"
  /\ lastOp' = [NoOp EXCEPT !.op = "validateConstraints", !.constraints = constraints,
                  !.error = ValidateConstraints(availableStrategies, constraints, 1)]
  /\ UNCHANGED <<pc, customStrategies, availableStrategies, usedStrategies,
                 deriveConstraints, mustMatchHandlerMatcher, compileCount>>

\* deriveConstraints(req, ctx)
Derive(req) ==
  /\ pc = "ready"
  /\ LET r == RunDeriveConstraints(deriveConstraints, availableStrategies, req)
     IN lastOp' = [NoOp EXCEPT !.op = "deriveConstraints", !.req = req,
                     !.derived = r.derived, !.invoked = r.invoked]
  /\ UNCHANGED <<pc, customStrategies, availableStrategies, usedStrategies,
                 deriveConstraints, mustMatchHandlerMatcher, compileCount>>

\* mustMatchHandlerMatcher(derivedConstraints) on a node whose handlers[0] is
\* handler, with constraints given by the caller (find(method, path, constraints))
MatchDefault(derivedConstraints, handler) ==
  /\ pc = "ready"
  /\ lastOp' = [NoOp EXCEPT !.op = "mustMatchHandlerMatcher",
                  !.derivedConstraints = derivedConstraints, !.handler = handler,
                  !.result = RunMustMatchHandlerMatcher(mustMatchHandlerMatcher,
                                                        derivedConstraints, handler)]
  /\ UNCHANGED <<pc, customStrategies, availableStrategies, usedStrategies,
                 deriveConstraints, mustMatchHandlerMatcher, compileCount>>

\* lookup(req, ctx): the constraints derived from req, when there are any,
\* handed to the matcher of a node that has only a default handler
Lookup(req, handler) ==
  /\ pc = "ready"
  /\ LET r == RunDeriveConstraints(deriveConstraints, availableStrategies, req)
     IN /\ ~r.derived.isNull
        /\ lastOp' = [NoOp EXCEPT !.op = "lookup", !.req = req, !.handler = handler,
                        !.derived = r.derived, !.invoked = r.invoked,
                        !.derivedConstraints = r.derived.map,
                        !.result = RunMustMatchHandlerMatcher(mustMatchHandlerMatcher,
                                                              r.derived.map, handler)]
  /\ UNCHANGED <<pc, customStrategies, availableStrategies, usedStrategies,
                 deriveConstraints, mustMatchHandlerMatcher, compileCount>>

Next ==
  \/ ConstructorOk
  \/ ConstructorThrows
  \/ \E strategyName \in KeyNames : AddUsedStrategy(strategyName)
  \/ \E constraints \in ConstraintMaps : Validate(constraints)
  \/ \E req \in Requests : Derive(req)
  \/ \E m \in [KeyNames -> HeaderValues], h \in Handlers : MatchDefault(m, h)
  \/ \E req \in Requests, h \in Handlers : Lookup(req, h)

Spec == Init /\ [][Next]_vars

\* ---- claims ----------------------------------------------------------------

\* the strategy registered under key (only used where the key is registered)
Registered(key) == Get(availableStrategies, key)

\* C1: whenever the built-in version strategy derived a value for a request
\* (its accept-version header is present and the derived constraints carry a
\* version), the matcher applied to the derived constraints returns null and
\* never the default handler of the node.
C1_VersionDerivedNeverDefault ==
  ( /\ lastOp.op = "lookup"
    /\ ~Registered("version").isCustom
    /\ Truthy(lastOp.req["accept-version"])
    /\ lastOp.derived.map["version"] # UNDEF )
  => lastOp.result = NULL

\* C2: the matcher returns null exactly when the mapping has a defined value
\* for some available strategy flagged mustMatchWhenDerived, and the node's
\* handlers[0] otherwise, used or not.
C2_MatchDefaultByFlags ==
  lastOp.op = "mustMatchHandlerMatcher" =>
    lastOp.result =
      IF \E i \in 1..Len(availableStrategies) :
           /\ availableStrategies[i].mustMatchWhenDerived
           /\ lastOp.derivedConstraints[availableStrategies[i].name] # UNDEF
      THEN NULL
      ELSE lastOp.handler

\* a flagged strategy no route uses blocks the default handler, with the empty
\* string as its (defined) value
C2_Witness ==
  /\ lastOp.op = "mustMatchHandlerMatcher"
  /\ usedStrategies = <<"host">>
  /\ HasKey(availableStrategies, "region")
  /\ Registered("region").mustMatchWhenDerived
  /\ lastOp.derivedConstraints = [EmptyMap EXCEPT !["region"] = "", !["host"] = "1.x"]
  /\ lastOp.result = NULL

\* C3: while usedStrategies is empty, deriveConstraints returns null for every
\* request and calls no strategy's deriveConstraint.
C3_NoUsedDerivesNull ==
  (lastOp.op = "deriveConstraints" /\ usedStrategies = <<>>)
  => (lastOp.derived.isNull /\ lastOp.invoked = <<>>)

C3_Witness ==
  /\ lastOp.op = "deriveConstraints"
  /\ usedStrategies = <<>>
  /\ Len(availableStrategies) = 3
  /\ \A h \in HeaderNames : Truthy(lastOp.req[h])
  /\ lastOp.derived.isNull

\* C4: addUsedStrategy with a name already in usedStrategies changes neither
\* usedStrategies nor the compiled functions and does not compile; with a new
\* name it appends the name and compiles exactly once.
C4_AddUsedIdempotent ==
  [][ lastOp'.op = "addUsedStrategy" =>
        IF lastOp'.name \in Range(usedStrategies)
        THEN /\ usedStrategies' = usedStrategies
             /\ compileCount' = compileCount
             /\ deriveConstraints' = deriveConstraints
             /\ mustMatchHandlerMatcher' = mustMatchHandlerMatcher
        ELSE /\ usedStrategies' = Append(usedStrategies, lastOp'.name)
             /\ compileCount' = compileCount + 1 ]_vars

\* a repeated name after two first occurrences: three compilations in all
C4_Witness ==
  /\ lastOp.op = "addUsedStrategy"
  /\ ~lastOp.pushed
  /\ lastOp.name = "version"
  /\ usedStrategies = <<"version", "host">>
  /\ compileCount = 3

\* C5: every name in usedStrategies is a key of availableStrategies, because
\* addUsedStrategy with an unregistered name has no effect.
C5_UsedAreAvailable ==
  pc = "ready" =>
    \A i \in 1..Len(usedStrategies) : HasKey(availableStrategies, usedStrategies[i])

\* what the constructor's assertions require of one custom strategy
C6_Valid(strategy) ==
  /\ strategy.name \notin {UNDEF, ""}
  /\ strategy.storage # UNDEF
  /\ strategy.deriveConstraint # UNDEF

C6_StoredAt(i) ==
  /\ HasKey(availableStrategies, customStrategies[i].name)
  /\ Registered(customStrategies[i].name) = [customStrategies[i] EXCEPT !.isCustom = TRUE]

C6_FailsExactlyOnMalformed ==
  /\ pc = "failed" <=> \E i \in 1..Len(customStrategies) : ~C6_Valid(customStrategies[i])
  /\ pc = "failed" => lastOp.error = "InvalidStrategy"

\* C6 (as claimed): construction fails with InvalidStrategy exactly when some
\* custom strategy is malformed, and otherwise every custom strategy is
\* the entry of availableStrategies under its name.
C6_EachCustomStored ==
  pc # "new" =>
    /\ C6_FailsExactlyOnMalformed
    /\ pc = "ready" => \A i \in 1..Len(customStrategies) : C6_StoredAt(i)

\* C6 (amended): construction fails with InvalidStrategy exactly when some
\* custom strategy is malformed; otherwise every custom strategy that no later
\* one of the collection shares its name with is the entry under its name, and
\* a built-in stays exactly where no custom strategy has its name.
C6_LastCustomStored ==
  pc # "new" =>
    /\ C6_FailsExactlyOnMalformed
    /\ pc = "ready" =>
         /\ \A i \in 1..Len(customStrategies) :
              (\A j \in (i + 1)..Len(customStrategies) :
                 customStrategies[j].name # customStrategies[i].name)
              => C6_StoredAt(i)
         /\ \A b \in {acceptVersionStrategy, acceptHostStrategy} :
              /\ HasKey(availableStrategies, b.name)
              /\ (\A i \in 1..Len(customStrategies) : customStrategies[i].name # b.name)
                 => Registered(b.name) = b

\* two custom strategies of one name, and a built-in replaced
C6_Witness ==
  /\ pc = "ready"
  /\ Len(customStrategies) = 2
  /\ customStrategies[1].name = customStrategies[2].name
  /\ customStrategies[1] # customStrategies[2]
  /\ Registered(customStrategies[2].name) = [customStrategies[2] EXCEPT !.isCustom = TRUE]

\* C7: validateConstraints of a constraints object that is just a malformed
\* version, {version: 'not-a-semver-range'}, fails with the version strategy's
\* ValidationError.
C7_MalformedVersionRejected ==
  ( /\ lastOp.op = "validateConstraints"
    /\ lastOp.constraints = <<[key |-> "version", value |-> "not-a-semver-range"]>> )
  => lastOp.error = "ValidationError"

C8_HasUnknownKey(constraints) ==
  \E i \in 1..Len(constraints) : ~HasKey(availableStrategies, constraints[i].key)

\* C8 (as claimed): validateConstraints fails with UnknownStrategy for every
\* constraints object that has a key without a registered strategy.
C8_UnknownKeyAlwaysUnknownStrategy ==
  (lastOp.op = "validateConstraints" /\ C8_HasUnknownKey(lastOp.constraints))
  => lastOp.error = "UnknownStrategy"

\* a key before position i whose strategy has a validate that rejects its value
C8_RejectedBefore(constraints, i) ==
  \E j \in 1..(i - 1) :
    /\ Registered(constraints[j].key).validate
    /\ constraints[j].value = "not-a-semver-range"

C8_FirstUnknown(constraints) ==
  CHOOSE i \in 1..Len(constraints) :
    /\ ~HasKey(availableStrategies, constraints[i].key)
    /\ \A j \in 1..(i - 1) : HasKey(availableStrategies, constraints[j].key)

\* C8 (amended): validateConstraints fails for every constraints object that
\* has a key without a registered strategy -- with UnknownStrategy unless the
\* validate of a key enumerated before the first such key rejects its value,
\* and then with that ValidationError -- and it changes neither
\* availableStrategies nor usedStrategies nor the compiled functions.
C8_UnknownKeyFails ==
  [][ (lastOp'.op = "validateConstraints" /\ C8_HasUnknownKey(lastOp'.constraints))
      => /\ lastOp'.error =
              IF C8_RejectedBefore(lastOp'.constraints, C8_FirstUnknown(lastOp'.constraints))
              THEN "ValidationError"
              ELSE "UnknownStrategy"
         /\ UNCHANGED <<availableStrategies, usedStrategies, deriveConstraints,
                        mustMatchHandlerMatcher, compileCount>> ]_vars

\* {version: 'not-a-semver-range', region: '1.2.0'}, version validated, region
\* not registered
C8_Witness ==
  /\ lastOp.op = "validateConstraints"
  /\ lastOp.constraints = <<[key |-> "version", value |-> "not-a-semver-range"],
                            [key |-> "region", value |-> "1.2.0"]>>
  /\ ~HasKey(availableStrategies, "region")
  /\ lastOp.error = "ValidationError"

\* the used strategies whose deriveConstraint returns a (truthy) value for req
C9_Yielding(req) ==
  {k \in Range(usedStrategies) :
     /\ HasKey(availableStrategies, k)
     /\ Truthy(req[Registered(k).deriveConstraint])}

\* C9: deriveConstraints returns null when no used strategy yields a value for
\* the request, and otherwise the mapping of exactly the used strategies that
\* yield one to the value their deriveConstraint returns; only used strategies
\* are ever called.
C9_DeriveIsUsedStrategiesValues ==
  lastOp.op = "deriveConstraints" =>
    /\ IF C9_Yielding(lastOp.req) = {}
       THEN lastOp.derived.isNull
       ELSE /\ ~lastOp.derived.isNull
            /\ \A k \in KeyNames :
                 lastOp.derived.map[k] =
                   IF k \in C9_Yielding(lastOp.req)
                   THEN lastOp.req[Registered(k).deriveConstraint]
                   ELSE UNDEF
    /\ Range(lastOp.invoked) \subseteq Range(usedStrategies)

C10_Entry(fn, req, s) ==
  RunDeriveConstraints(fn, availableStrategies, req).derived.map[s]

\* C10: addUsedStrategy for one strategy leaves, for every request, the entry
\* deriveConstraints produces for every other strategy already in
\* usedStrategies as it was, and the matcher's result for every mapping.
C10_RecompileNotRetroactive ==
  [][ lastOp'.op = "addUsedStrategy" =>
        /\ \A req \in Requests :
             \A s \in Range(usedStrategies) \ {lastOp'.name} :
               C10_Entry(deriveConstraints', req, s) = C10_Entry(deriveConstraints, req, s)
        /\ \A m \in [KeyNames -> HeaderValues] :
             \A h \in Handlers :
               RunMustMatchHandlerMatcher(mustMatchHandlerMatcher', m, h)
                 = RunMustMatchHandlerMatcher(mustMatchHandlerMatcher, m, h) ]_vars

\* a third strategy compiled in after two others
C10_Witness ==
  /\ lastOp.op = "addUsedStrategy"
  /\ lastOp.pushed
  /\ Len(usedStrategies) = 3
  /\ Len(deriveConstraints) = 3

====
